---- MODULE Spec2Model ----
(***************************************************************************)
(* Model of the LinkedIn automatic poster.                                 *)
(*                                                                         *)
(* Two implementations live in the repository and both are modelled:       *)
(*   - the rotation scheduler (scheduler.py, main.py, config.py,           *)
(*     content_generator.py, mcp_client.py, linkedin_poster.py), which     *)
(*     owns topics / content_types and their cursors;                      *)
(*   - the job scheduler (src/scheduler.py), which owns a table of         *)
(*     APScheduler jobs keyed by a job id derived from the topic.          *)
(*                                                                         *)
(* Text is modelled as a sequence of strings: a topic is a sequence of     *)
(* one-character strings, a fixed phrase of a template is one element.     *)
(***************************************************************************)
EXTENDS Integers, Sequences, FiniteSets, Bags, TLC

\* ------------------------------------------------------------------ bounds
MaxTopics == 3
MaxTypes == 2
MaxJobs == 2
MaxRuns == 2
MaxAuthFailures == 3
MaxUrls == 2
MaxResults == 2
MaxRequests == 3

\* ------------------------------------------------------------- text helpers
Range(s) == {s[i] : i \in 1..Len(s)}

SeqsUpTo(S, n) == UNION {[1..k -> S] : k \in 1..n}

\* the non-empty lists without repetition, as add_topic keeps them
NoDupSeqs(S, n) == {s \in SeqsUpTo(S, n) : \A i, j \in 1..Len(s) : s[i] = s[j] => i = j}

\* text contains needle as a contiguous substring
Contains(text, needle) ==
    \E i \in 1..(Len(text) - Len(needle) + 1) :
        SubSeq(text, i, i + Len(needle) - 1) = needle

\* str.replace(' ', '')
remove_spaces(s) == SelectSeq(s, LAMBDA c : c # " ")

\* str.replace(' ', '_')
underscore_spaces(s) == [i \in 1..Len(s) |-> IF s[i] = " " THEN "_" ELSE s[i]]

\* list.index(x): zero-based position of the first occurrence
index_of(s, x) == (CHOOSE i \in 1..Len(s) : s[i] = x /\ \A j \in 1..(i-1) : s[j] # x) - 1

\* list.remove(x): drop the first occurrence
list_remove(s, x) ==
    LET i == index_of(s, x) + 1
    IN  SubSeq(s, 1, i - 1) \o SubSeq(s, i + 1, Len(s))

\* --------------------------------------------------------------- universes
\* "q c" stands for a two-word topic such as "quantum computing"
TopicNames == { <<"q", " ", "c">>, <<"a", "i">>, <<"b">> }

\* content.content_types of the configuration is drawn from ContentTypeNames
\* ("slide" is dispatched like "graph" and enters through --content-type)
ContentTypeNames == {"article", "graph", "infographic"}
OverrideTypes == {"article", "slide"}

IndexError == <<"IndexError">>
NoTopic == <<>>
NoType == "none"

\* ---------------------------------------------------------------- variables
VARIABLES
    \* rotation scheduler (scheduler.py)
    topics, topic_index, content_types, content_type_index, running,
    daemon,     \* TRUE while the while-loop of start_scheduler is executing
    config,     \* config.json: content.topics, content.current_topic
    run,        \* the activation of run_posting_job in progress
    ret,        \* what the last command of main.py reported to its caller
    \* job scheduler (src/scheduler.py)
    jobs,       \* APScheduler job store, in insertion order
    sched_running,
    jobs_file,  \* data/scheduled_jobs.json
    inflight,   \* activations of generate_and_post_content in progress
    \* observations of the job scheduler, kept by no code of the repository:
    auth_failures, \* per job id, the runs in a row whose post came back 401
    last_call,  \* the step just taken, when it was a schedule_* call
    \* the helper functions of src/utils, called on their own
    call,       \* the function called last and its inputs
    returned    \* what that call returned or raised

rot_vars == <<topics, topic_index, content_types, content_type_index, running,
              daemon, config, run, ret>>
job_vars == <<jobs, sched_running, jobs_file, inflight, auth_failures, last_call>>
util_vars == <<call, returned>>
vars == <<rot_vars, job_vars, util_vars>>

\* ===================================================== content_generator.py
Flatten(ss) ==
    LET F[i \in 0..Len(ss)] == IF i = 0 THEN <<>> ELSE F[i-1] \o ss[i]
    IN  F[Len(ss)]

\* list(set(xs)): every element once (Python leaves the order unspecified; the
\* lists met here stay under the [:10] cut, where the order has no effect)
Dedup(xs) ==
    LET D[i \in 0..Len(xs)] ==
            IF i = 0 THEN <<>>
            ELSE IF xs[i] \in Range(D[i-1]) THEN D[i-1] ELSE Append(D[i-1], xs[i])
    IN  D[Len(xs)]

Take(xs, n) == SubSeq(xs, 1, IF Len(xs) < n THEN Len(xs) ELSE n)

\* "json": the model answered with the JSON asked for; "text": the answer is
\* not JSON (prose, or the "Error generating content" string returned when the
\* API call raised); "unavailable": no API key and the inference API failed
LLMOutcomes == {"json", "text", "unavailable"}

\* the canned JSON of generate_fallback_text for an article prompt, parsed
CannedArticle ==
    [headline     |-> <<"Latest Technology Trends">>,
     introduction |-> <<"The tech industry continues to evolve...">>,
     main_points  |-> <<"Point 1", "Point 2", "Point 3">>,
     takeaways    |-> <<"Takeaway 1", "Takeaway 2">>,
     conclusion   |-> <<"Stay informed about these trends.">>,
     hashtags     |-> << <<"#Technology">>, <<"#Innovation">>, <<"#TechTrends">> >>]

\* what a working model answers for the article prompt about topic
LLMArticle(topic) ==
    [headline     |-> <<"llm headline on ">> \o topic,
     introduction |-> <<"llm introduction">>,
     main_points  |-> <<"llm point">>,
     takeaways    |-> <<"llm takeaway">>,
     conclusion   |-> <<"llm conclusion">>,
     hashtags     |-> << <<"#llm">> >>]

\* generate_with_llm / generate_with_local_llm / generate_fallback_text for
\* the article prompt: the response text, and the dict it parses to if any
generate_with_llm(topic, llm) ==
    CASE llm = "json"        -> [json |-> TRUE,  dict |-> LLMArticle(topic), text |-> <<>>]
      [] llm = "text"        -> [json |-> FALSE, dict |-> CannedArticle, text |-> <<"response text">>]
      [] llm = "unavailable" -> [json |-> TRUE,  dict |-> CannedArticle, text |-> <<>>]

generate_article_content(sources, topic, llm) ==
    LET response == generate_with_llm(topic, llm)
    IN  IF response.json THEN response.dict
        ELSE [headline     |-> <<"Latest Insights on ">> \o topic,
              introduction |-> response.text \o <<"...">>,
              main_points  |-> response.text,
              takeaways    |-> <<"Key insight 1", "Key insight 2", "Key insight 3">>,
              conclusion   |-> response.text,
              hashtags     |-> << <<"#">> \o remove_spaces(topic), <<"#Technology">>,
                                  <<"#Innovation">>, <<"#LinkedIn">> >>]

\* ============================================================ mcp_client.py
\* str(article_content)
str_of(a) ==
    <<"{">> \o a.headline \o a.introduction \o a.main_points \o a.takeaways
            \o a.conclusion \o Flatten(a.hashtags) \o <<"}">>

\* the state of the MCP server during one run: it answers with an enhanced
\* text, answers without one, or is down (non-200, timeout, malformed body)
MCPOutcomes == {"enhanced", "empty", "down"}

create_fallback_enhancement(content, topic) == [enhanced_content |-> content]

enhance_content_with_context(content, topic, mcp) ==
    CASE mcp = "enhanced" -> [enhanced_content |-> <<"mcp enhanced text">>]
      [] mcp = "empty"    -> [enhanced_content |-> <<>>]
      [] mcp = "down"     -> create_fallback_enhancement(content, topic)

create_fallback_hashtags(topic) ==
    LET base == << <<"#">> \o remove_spaces(topic), <<"#Technology">>,
                   <<"#Innovation">>, <<"#DigitalTransformation">> >>
        more == IF Contains(topic, <<"a", "i">>)
                THEN << <<"#AI">>, <<"#MachineLearning">>,
                        <<"#ArtificialIntelligence">>, <<"#TechTrends">> >>
                ELSE <<>>
    IN  Take(base \o more, 10)

generate_hashtags(content, topic, mcp) ==
    IF mcp # "down" THEN << <<"#mcp">> >> ELSE create_fallback_hashtags(topic)

\* ======================================================= linkedin_poster.py
PublishOutcomes == {"201", "401", "500", "raise"}

\* the text post_article hands to post_text_update, hashtags appended
post_article_text(a) ==
    a.headline \o a.introduction \o a.main_points
        \o (IF a.takeaways # <<>> THEN <<"Key Takeaways:">> \o a.takeaways ELSE <<>>)
        \o a.conclusion \o Flatten(a.hashtags)

publish_requests_retrying(publish) == IF publish = "201" THEN 1 ELSE 2

\* the ugcPosts requests one publish call makes: post_text_update,
\* post_carousel and post_image_with_text each issue one requests.post
publish_requests(publish) == 1

post_text_update(publish) ==
    IF publish = "201" THEN "success" ELSE "failed"

\* ============================================================= scheduler.py
IdleRun ==
    [pc |-> "idle", via |-> "none", topic |-> NoTopic, ctype |-> NoType,
     pre_ti |-> 0, pre_ci |-> 0, pre_len |-> 0, sources |-> 0,
     llm |-> "none", mcp |-> "none", posted |-> <<>>, published |-> FALSE,
     result |-> "none", override |-> FALSE, original_types |-> <<>>,
     call_ci |-> 0, posts |-> 0, requested |-> NoTopic]

NoRet == [cmd |-> "none", rc |-> 0, log |-> "", sole |-> FALSE]

\* the value a subscript yields, IndexError when it is out of range
Subscript(xs, i) == IF i >= 0 /\ i < Len(xs) THEN xs[i + 1] ELSE IndexError

\* get_current_topic resets topic_index to 0 when it is past the end
topic_index_checked == IF topic_index >= Len(topics) THEN 0 ELSE topic_index
get_current_topic == Subscript(topics, topic_index_checked)

content_type_index_checked ==
    IF content_type_index >= Len(content_types) THEN 0 ELSE content_type_index

get_current_content_type_first == Subscript(content_types, 0)

get_current_content_type == Subscript(content_types, content_type_index_checked)

rotate_content_type_stuck(i, n) == i % n

\* rotate_content_type: the next cursor
rotate_content_type(i, n) == (i + 1) % n

\* rotate_topic: the next cursor
rotate_topic(i, n) == (i + 1) % n

remove_topic_allowed_any_length(topic) == topic \in Range(topics)

\* the guard of remove_topic
remove_topic_allowed(topic) == topic \in Range(topics) /\ Len(topics) > 1

add_topic_always_appends(topic) ==
    /\ topics' = Append(topics, topic)
    /\ config' = [config EXCEPT !.topics = Append(topics, topic)]

\* LinkedInScheduler.add_topic
add_topic(topic) ==
    IF topic \notin Range(topics)
    THEN /\ topics' = Append(topics, topic)
         /\ config' = [config EXCEPT !.topics = Append(topics, topic)]
    ELSE UNCHANGED <<topics, config>>

\* LinkedInScheduler.remove_topic
remove_topic(topic) ==
    IF remove_topic_allowed(topic)
    THEN LET rest == list_remove(topics, topic)
         IN  /\ topics' = rest
             /\ config' = [config EXCEPT !.topics = rest]
             /\ topic_index' = IF topic_index >= Len(rest) THEN 0 ELSE topic_index
    ELSE UNCHANGED <<topics, config, topic_index>>

\* LinkedInScheduler.set_current_topic
set_current_topic(topic) ==
    IF topic \in Range(topics)
    THEN /\ topic_index' = index_of(topics, topic)
         /\ config' = [config EXCEPT !.current_topic = topic]
    ELSE UNCHANGED <<topic_index, config>>

\* ------------------------------------------------------------------ main.py
\* LinkedInAutomationSystem.add_topic
main_add_topic(topic) ==
    /\ UNCHANGED <<job_vars, util_vars>>
    /\ run.pc = "idle" /\ ~daemon
    /\ Len(topics) < MaxTopics \/ topic \in Range(topics)
    /\ add_topic(topic)
    /\ ret' = [cmd |-> "add_topic", rc |-> 0, log |-> "Added topic", sole |-> FALSE]
    /\ UNCHANGED <<topic_index, content_types, content_type_index, running, daemon, run>>

\* LinkedInAutomationSystem.remove_topic
main_remove_topic(topic) ==
    /\ UNCHANGED <<job_vars, util_vars>>
    /\ run.pc = "idle" /\ ~daemon
    /\ remove_topic(topic)
    /\ ret' = [cmd |-> "remove_topic", rc |-> 0, log |-> "Removed topic",
               sole |-> (topics = <<topic>>)]
    /\ UNCHANGED <<content_types, content_type_index, running, daemon, run>>

\* LinkedInAutomationSystem.run_once, up to the call of scheduler.run_once:
\* the topic override and the temporary content-type override
main_run_once(topic, content_type) ==
    /\ UNCHANGED <<job_vars, util_vars>>
    /\ run.pc = "idle" /\ ~daemon
    /\ IF topic # NoTopic THEN set_current_topic(topic)
       ELSE UNCHANGED <<topic_index, config>>
    /\ IF content_type # NoType
       THEN /\ content_types' = <<content_type>>
            /\ content_type_index' = 0
       ELSE UNCHANGED <<content_types, content_type_index>>
    /\ run' = [IdleRun EXCEPT !.pc = "run_once", !.via = "manual",
                              !.override = (content_type # NoType),
                              !.original_types = content_types,
                              !.call_ci = content_type_index,
                              !.requested = topic]
    /\ ret' = NoRet
    /\ UNCHANGED <<topics, running, daemon>>

\* run_posting_job, lines 130-134: the selection of topic and content type
run_posting_job_begin(r) ==
    [r EXCEPT !.pc = "gather",
              !.topic = get_current_topic, !.ctype = get_current_content_type,
              !.pre_ti = topic_index, !.pre_ci = content_type_index,
              !.pre_len = Len(content_types)]

\* LinkedInScheduler.run_once: credentials are validated, then the job runs
run_once(credentials_ok) ==
    /\ UNCHANGED <<job_vars, util_vars>>
    /\ run.pc = "run_once"
    /\ IF credentials_ok
       THEN /\ run' = run_posting_job_begin(run)
            /\ topic_index' = topic_index_checked
            /\ content_type_index' = content_type_index_checked
       ELSE /\ run' = [run EXCEPT !.pc = "done", !.result = "invalid_credentials"]
            /\ UNCHANGED <<topic_index, content_type_index>>
    /\ UNCHANGED <<topics, content_types, running, daemon, config, ret>>

\* start_scheduler up to the while-loop
start_scheduler(credentials_ok) ==
    /\ UNCHANGED <<job_vars, util_vars>>
    /\ run.pc = "idle" /\ ~daemon
    /\ running' = TRUE
    /\ daemon' = credentials_ok
    /\ ret' = NoRet
    /\ UNCHANGED <<topics, topic_index, content_types, content_type_index, config, run>>

\* schedule.run_pending() inside the loop fires run_posting_job
run_pending ==
    /\ UNCHANGED <<job_vars, util_vars>>
    /\ daemon /\ running /\ run.pc = "idle"
    /\ run' = run_posting_job_begin([IdleRun EXCEPT !.via = "scheduled"])
    /\ topic_index' = topic_index_checked
    /\ content_type_index' = content_type_index_checked
    /\ UNCHANGED <<topics, content_types, running, daemon, config, ret>>

\* run_posting_job, lines 136-142: Step 1
gather_information(n) ==
    /\ UNCHANGED <<job_vars, util_vars>>
    /\ run.pc = "gather"
    /\ run' = [run EXCEPT !.pc = "create", !.sources = n]
    /\ UNCHANGED <<topics, topic_index, content_types, content_type_index,
                   running, daemon, config, ret>>

\* create_and_post_article: the article data handed to post_article
create_article(sources, topic, llm, mcp) ==
    LET article_content == generate_article_content(sources, topic, llm)
        enhanced == enhance_content_with_context(str_of(article_content), topic, mcp)
        with_intro == IF enhanced.enhanced_content # <<>>
                      THEN [article_content EXCEPT !.introduction = enhanced.enhanced_content]
                      ELSE article_content
        mcp_hashtags == generate_hashtags(with_intro.introduction, topic, mcp)
    IN  [with_intro EXCEPT !.hashtags = Take(Dedup(with_intro.hashtags \o mcp_hashtags), 10)]

\* run_posting_job, lines 144-153: Step 2, by content type
create_and_post(llm, mcp, media_ok, publish) ==
    /\ UNCHANGED <<job_vars, util_vars>>
    /\ run.pc = "create"
    /\ run' =
         CASE run.ctype = "article" ->
                [run EXCEPT !.pc = "record", !.llm = llm, !.mcp = mcp,
                    !.posted = post_article_text(
                        create_article(run.sources, run.topic, llm, mcp)),
                    !.published = TRUE, !.result = post_text_update(publish),
                    !.posts = publish_requests(publish)]
           [] run.ctype \in {"slide", "graph"} ->
                IF media_ok
                THEN [run EXCEPT !.pc = "record", !.llm = llm, !.published = TRUE,
                                 !.result = post_text_update(publish),
                                 !.posts = publish_requests(publish)]
                ELSE [run EXCEPT !.pc = "record", !.llm = llm, !.result = "failed"]
           [] OTHER ->
                [run EXCEPT !.pc = "done", !.result = "unknown_type"]
    /\ UNCHANGED <<topics, topic_index, content_types, content_type_index,
                   running, daemon, config, ret>>

posted_ok_always(result) == TRUE

\* run_posting_job, line 156: result.get("success")
posted_ok(result) == result = "success"

\* run_posting_job, lines 155-167: Step 3; random.random() < 0.3 is the input
record_result(rotate_topic_too) ==
    /\ UNCHANGED <<job_vars, util_vars>>
    /\ run.pc = "record"
    /\ run' = [run EXCEPT !.pc = "done"]
    /\ IF posted_ok(run.result)
       THEN /\ content_type_index' = rotate_content_type(content_type_index, Len(content_types))
            /\ IF rotate_topic_too
               THEN /\ topic_index' = rotate_topic(topic_index, Len(topics))
                    /\ config' = [config EXCEPT !.current_topic =
                                    topics[rotate_topic(topic_index, Len(topics)) + 1]]
               ELSE UNCHANGED <<topic_index, config>>
       ELSE UNCHANGED <<content_type_index, topic_index, config>>
    /\ UNCHANGED <<topics, content_types, running, daemon, ret>>

\* run_posting_job returns: to main.run_once (which restores the content
\* types it overrode and reports) or to the scheduler loop
run_returns ==
    /\ UNCHANGED <<job_vars, util_vars>>
    /\ run.pc = "done"
    /\ run' = IdleRun
    /\ IF run.via = "manual"
       THEN /\ content_types' = IF run.override THEN run.original_types ELSE content_types
            /\ ret' = [cmd |-> "run_once",
                       rc |-> IF run.result = "invalid_credentials" THEN 1 ELSE 0,
                       log |-> "", sole |-> FALSE]
       ELSE UNCHANGED <<content_types, ret>>
    /\ UNCHANGED <<topics, topic_index, content_type_index, running, daemon, config>>

\* signal_handler: stop() and sys.exit(0), wherever the process is
signal_handler ==
    /\ UNCHANGED <<job_vars, util_vars>>
    /\ run.pc # "exited"
    /\ running' = FALSE
    /\ daemon' = FALSE
    /\ run' = [IdleRun EXCEPT !.pc = "exited"]
    /\ UNCHANGED <<topics, topic_index, content_types, content_type_index, config, ret>>

\* a new process: Config.load_config and LinkedInScheduler.__init__
new_process ==
    /\ UNCHANGED <<job_vars, util_vars>>
    /\ topics' = config.topics
    /\ content_types' = config.content_types
    /\ topic_index' = 0
    /\ content_type_index' = 0
    /\ running' = FALSE
    /\ daemon' = FALSE
    /\ run' = IdleRun
    /\ ret' = NoRet
    /\ UNCHANGED config

\* ========================================================= src/scheduler.py
JobTopics == { <<"q", " ", "c">>, <<"q", "_", "c">>, <<"b">> }

\* a cron schedule is the list of its whitespace-separated fields, a field the
\* list of its pieces
CronA == << <<"0">>, <<"9">>, <<"*">>, <<"*">>, <<"*">> >>
CronB == << <<"30">>, <<"18">>, <<"*">>, <<"*">>, <<"*">> >>
BadCron == << <<"daily">> >>
Schedules == {CronA, CronB, BadCron}

\* the field expressions CronTrigger accepts among those met here
valid_cron_field(f) == f \in { <<"*">>, <<"0">>, <<"9">>, <<"18">>, <<"30">> }

daily_job_id(topic) == <<"daily_post_">> \o underscore_spaces(topic)
interval_job_id(topic) == <<"interval_post_">> \o underscore_spaces(topic)

JobIds == {daily_job_id(t) : t \in JobTopics} \cup {interval_job_id(t) : t \in JobTopics}

\* len(scheduler.get_jobs()) for a job store
job_count(store) ==
    LET Sum[S \in SUBSET JobIds] ==
            IF S = {} THEN 0
            ELSE LET id == CHOOSE x \in S : TRUE
                 IN  Len(store[id]) + Sum[S \ {id}]
    IN  Sum[JobIds]

JobCount == job_count(jobs)

\* settings.content.topic and settings.content.posting_schedule
DefaultTopic == <<"q", " ", "c">>
DefaultSchedule == CronA

NoCall == [op |-> "none", existed |-> FALSE, raised |-> FALSE]

add_job_keep_existing(store, job) == [store EXCEPT ![job.id] = Append(@, job)]

\* scheduler.add_job(..., id=job_id, replace_existing=True)
add_job(store, job) == [store EXCEPT ![job.id] = <<job>>]

\* schedule_daily_posting raises ValueError unless the schedule has five
\* fields that CronTrigger accepts
cron_ok(schedule) ==
    Len(schedule) = 5 /\ \A i \in 1..Len(schedule) : valid_cron_field(schedule[i])

\* the job store after schedule_daily_posting(topic, schedule); unchanged
\* when it raised
daily_posting(store, topic, schedule) ==
    IF cron_ok(schedule)
    THEN add_job(store, [id |-> daily_job_id(topic), topic |-> topic,
                         trigger |-> [kind |-> "cron", fields |-> schedule],
                         paused |-> FALSE])
    ELSE store

schedule_daily_posting(topic, schedule) ==
    /\ UNCHANGED <<rot_vars, util_vars>>
    /\ jobs[daily_job_id(topic)] # <<>> \/ JobCount < MaxJobs
    /\ jobs' = daily_posting(jobs, topic, schedule)
    /\ last_call' = [op |-> "schedule_daily_posting",
                     existed |-> (jobs[daily_job_id(topic)] # <<>>),
                     raised |-> ~cron_ok(schedule)]
    /\ auth_failures' = IF cron_ok(schedule)
                        THEN [auth_failures EXCEPT ![daily_job_id(topic)] = 0]
                        ELSE auth_failures
    /\ UNCHANGED <<sched_running, jobs_file, inflight>>

schedule_interval_posting(topic, interval_hours) ==
    /\ UNCHANGED <<rot_vars, util_vars>>
    /\ jobs[interval_job_id(topic)] # <<>> \/ JobCount < MaxJobs
    /\ jobs' = add_job(jobs, [id |-> interval_job_id(topic), topic |-> topic,
                              trigger |-> [kind |-> "interval", hours |-> interval_hours],
                              paused |-> FALSE])
    /\ last_call' = [op |-> "schedule_interval_posting",
                     existed |-> (jobs[interval_job_id(topic)] # <<>>),
                     raised |-> FALSE]
    /\ auth_failures' = [auth_failures EXCEPT ![interval_job_id(topic)] = 0]
    /\ UNCHANGED <<sched_running, jobs_file, inflight>>

\* remove_job: scheduler.remove_job raises JobLookupError for an unknown id,
\* which remove_job turns into False
remove_job(job_id) ==
    /\ UNCHANGED <<rot_vars, util_vars>>
    /\ last_call' = NoCall
    /\ jobs' = [jobs EXCEPT ![job_id] = <<>>]
    /\ auth_failures' = [auth_failures EXCEPT ![job_id] = 0]
    /\ UNCHANGED <<sched_running, jobs_file, inflight>>

set_paused(job_id, p) ==
    [jobs EXCEPT ![job_id] = [i \in 1..Len(@) |-> [@[i] EXCEPT !.paused = p]]]

pause_job(job_id) ==
    /\ UNCHANGED <<rot_vars, util_vars>>
    /\ last_call' = NoCall
    /\ jobs[job_id] # <<>>
    /\ jobs' = set_paused(job_id, TRUE)
    /\ UNCHANGED <<sched_running, jobs_file, inflight, auth_failures>>

resume_job(job_id) ==
    /\ UNCHANGED <<rot_vars, util_vars>>
    /\ last_call' = NoCall
    /\ jobs[job_id] # <<>>
    /\ jobs' = set_paused(job_id, FALSE)
    /\ auth_failures' = [auth_failures EXCEPT ![job_id] = 0]
    /\ UNCHANGED <<sched_running, jobs_file, inflight>>

\* str(job.trigger), as load_scheduled_jobs will split it again
str_trigger(trigger) ==
    IF trigger.kind = "cron"
    THEN << <<"cron[month='">> \o trigger.fields[4] \o <<"',">>,
            <<"day='">> \o trigger.fields[3] \o <<"',">>,
            <<"day_of_week='">> \o trigger.fields[5] \o <<"',">>,
            <<"hour='">> \o trigger.fields[2] \o <<"',">>,
            <<"minute='">> \o trigger.fields[1] \o <<"']">> >>
    ELSE << <<"interval[1">>, <<"day,">>, <<"0:00:00]">> >>

\* save_scheduled_jobs: the entries written to the jobs file
saved_jobs(store) ==
    { [job_id |-> store[id][i].id, topic |-> store[id][i].topic,
       schedule |-> str_trigger(store[id][i].trigger)] :
         id \in {x \in JobIds : store[x] # <<>>}, i \in {1} }

\* load_scheduled_jobs: schedule_daily_posting for every entry of the file; an
\* entry whose restore raises is skipped with a warning
load_scheduled_jobs(store, file) ==
    LET Load[S \in SUBSET file] ==
            IF S = {} THEN store
            ELSE LET e == CHOOSE x \in S : TRUE
                 IN  daily_posting(Load[S \ {e}], e.topic, e.schedule)
    IN  Load[file]

start ==
    /\ UNCHANGED <<rot_vars, util_vars>>
    /\ last_call' = NoCall
    /\ ~sched_running
    /\ LET loaded == load_scheduled_jobs(jobs, jobs_file)
       IN  jobs' = IF job_count(loaded) = 0
                   THEN daily_posting(loaded, DefaultTopic, DefaultSchedule)
                   ELSE loaded
    /\ sched_running' = TRUE
    /\ UNCHANGED <<jobs_file, inflight, auth_failures>>

stop ==
    /\ UNCHANGED <<rot_vars, util_vars>>
    /\ last_call' = NoCall
    /\ IF sched_running
       THEN /\ sched_running' = FALSE
            /\ jobs_file' = saved_jobs(jobs)
       ELSE UNCHANGED <<sched_running, jobs_file>>
    /\ UNCHANGED <<jobs, inflight, auth_failures>>

\* update_job_schedule: the job is removed, then scheduled again as a daily
\* job; an exception of schedule_daily_posting is caught and logged
update_job_schedule(job_id, new_schedule) ==
    /\ UNCHANGED <<rot_vars, util_vars>>
    /\ last_call' = NoCall
    /\ jobs' = IF jobs[job_id] # <<>>
               THEN daily_posting([jobs EXCEPT ![job_id] = <<>>],
                                  jobs[job_id][1].topic, new_schedule)
               ELSE jobs
    /\ UNCHANGED <<sched_running, jobs_file, inflight, auth_failures>>

\* the process ends without stop() and a new one constructs the scheduler:
\* LinkedInScheduler.__init__ with an empty AsyncIOScheduler; the jobs file
\* is what the old process left
scheduler_init ==
    /\ UNCHANGED <<rot_vars, util_vars>>
    /\ last_call' = NoCall
    /\ jobs' = [id \in JobIds |-> <<>>]
    /\ sched_running' = FALSE
    /\ inflight' = EmptyBag
    /\ auth_failures' = [id \in JobIds |-> 0]
    /\ UNCHANGED jobs_file

\* ------------------------------------------ generate_and_post_content runs
RunsOf(job_id) == {r \in BagToSet(inflight) : r.job_id = job_id}

InFlight(job_id) ==
    LET rs == RunsOf(job_id)
        Sum[S \in SUBSET rs] ==
            IF S = {} THEN 0
            ELSE LET r == CHOOSE x \in S : TRUE
                 IN  CopiesIn(r, inflight) + Sum[S \ {r}]
    IN  Sum[rs]

begin_run(job_id, via) ==
    inflight (+) SetToBag({[job_id |-> job_id, topic |-> jobs[job_id][1].topic,
                            via |-> via, pc |-> "connect"]})

\* the trigger of a job fires: the scheduler starts generate_and_post_content
\* unless the job is paused or an instance it started is still running
\* (APScheduler's max_instances, 1 by default)
fire_trigger(job_id) ==
    /\ UNCHANGED <<rot_vars, util_vars>>
    /\ last_call' = NoCall
    /\ sched_running
    /\ jobs[job_id] # <<>> /\ ~jobs[job_id][1].paused
    /\ \A r \in RunsOf(job_id) : r.via # "trigger"
    /\ BagCardinality(inflight) < MaxRuns
    /\ inflight' = begin_run(job_id, "trigger")
    /\ UNCHANGED <<jobs, sched_running, jobs_file, auth_failures>>

\* run_job_now: the job's topic is looked up and generate_and_post_content
\* is awaited directly
run_job_now(job_id) ==
    /\ UNCHANGED <<rot_vars, util_vars>>
    /\ last_call' = NoCall
    /\ jobs[job_id] # <<>>
    /\ BagCardinality(inflight) < MaxRuns
    /\ inflight' = begin_run(job_id, "manual")
    /\ UNCHANGED <<jobs, sched_running, jobs_file, auth_failures>>

step_run(r, pc) ==
    (inflight (-) SetToBag({r})) (+) SetToBag({[r EXCEPT !.pc = pc]})

\* generate_and_post_content, lines 154-157
test_connection(r, ok) ==
    /\ UNCHANGED <<rot_vars, util_vars>>
    /\ last_call' = NoCall
    /\ r \in BagToSet(inflight) /\ r.pc = "connect"
    /\ inflight' = IF ok THEN step_run(r, "generate") ELSE inflight (-) SetToBag({r})
    /\ UNCHANGED <<jobs, sched_running, jobs_file, auth_failures>>

\* generate_and_post_content, line 160; an exception ends the run at line 202
generate_content(r, ok) ==
    /\ UNCHANGED <<rot_vars, util_vars>>
    /\ last_call' = NoCall
    /\ r \in BagToSet(inflight) /\ r.pc = "generate"
    /\ inflight' = IF ok THEN step_run(r, "publish") ELSE inflight (-) SetToBag({r})
    /\ UNCHANGED <<jobs, sched_running, jobs_file, auth_failures>>

\* generate_and_post_content, lines 162-200: the post request and its logging
publish(r, status) ==
    /\ UNCHANGED <<rot_vars, util_vars>>
    /\ last_call' = NoCall
    /\ r \in BagToSet(inflight) /\ r.pc = "publish"
    /\ inflight' = inflight (-) SetToBag({r})
    /\ auth_failures' =
         [auth_failures EXCEPT ![r.job_id] =
            IF status = "401"
            THEN (IF @ < MaxAuthFailures THEN @ + 1 ELSE @)
            ELSE 0]
    /\ UNCHANGED <<jobs, sched_running, jobs_file>>

\* ======================================================== src/utils/fetcher.py
Urls == {"u1", "u2"}

\* what a search backend does with the query: it raises, or returns its URLs
Backends ==
    {[raises |-> TRUE, urls |-> <<>>]} \cup
    {[raises |-> FALSE, urls |-> u] : u \in {<<>>} \cup SeqsUpTo(Urls, MaxUrls)}

NoCallYet == [op |-> "none"]
\* the call has not returned yet
NoResult == [raised |-> "pending", value |-> <<>>]

\* the second backend, inside its try block
ddg_urls_unguarded(urls, ddg) ==
    IF ddg.raises THEN [raised |-> "Exception", value |-> <<>>]
    ELSE [raised |-> "none", value |-> ddg.urls]

ddg_urls(urls, ddg) ==
    IF ddg.raises THEN [raised |-> "none", value |-> urls]
    ELSE [raised |-> "none", value |-> ddg.urls]

\* _search_urls(topic, max_results)
search_urls(google, ddg, max_results) ==
    LET urls == IF google.raises THEN <<>> ELSE google.urls
        second == IF urls = <<>> THEN ddg_urls(urls, ddg)
                  ELSE [raised |-> "none", value |-> urls]
    IN  [second EXCEPT !.value = Take(@, max_results)]

\* _safe_get(url) and resp.raise_for_status() for each URL
Downloads == [Urls -> {"ok", "fail"}]

fetch_loop_aborting(urls, download) ==
    LET F[i \in 0..Len(urls)] ==
            IF i = 0 THEN <<>>
            ELSE IF \A k \in 1..i : download[urls[k]] = "ok"
                 THEN Append(F[i-1], [url |-> urls[i], title |-> urls[i],
                                      content |-> "text"])
                 ELSE F[i-1]
    IN  F[Len(urls)]

\* the for loop of fetch_articles
fetch_loop(urls, download) ==
    LET F[i \in 0..Len(urls)] ==
            IF i = 0 THEN <<>>
            ELSE IF download[urls[i]] = "ok"
                 THEN Append(F[i-1], [url |-> urls[i], title |-> urls[i],
                                      content |-> "text"])
                 ELSE F[i-1]
    IN  F[Len(urls)]

\* fetch_articles(topic, max_results)
fetch_articles(google, ddg, max_results, download) ==
    LET found == search_urls(google, ddg, max_results)
    IN  IF found.raised # "none" THEN found
        ELSE [raised |-> "none", value |-> fetch_loop(found.value, download)]

SearchCalls ==
    [op : {"_search_urls"}, google : Backends, ddg : Backends,
     max_results : 0..MaxResults]

FetchCalls ==
    [op : {"fetch_articles"}, google : Backends, ddg : Backends,
     max_results : 0..MaxResults, download : Downloads]

call_search_urls ==
    /\ UNCHANGED <<rot_vars, job_vars, call>>
    /\ call.op = "_search_urls" /\ returned = NoResult
    /\ returned' = search_urls(call.google, call.ddg, call.max_results)

call_fetch_articles ==
    /\ UNCHANGED <<rot_vars, job_vars, call>>
    /\ call.op = "fetch_articles" /\ returned = NoResult
    /\ returned' = fetch_articles(call.google, call.ddg, call.max_results,
                                  call.download)

\* ======================================================= src/utils/linkedin.py
\* the response to the ugcPosts request: its status code, and what its
\* raise_for_status does for a code of 400 and above ("requests": raises
\* HTTPError, as requests.Response does; "stub": returns, as the Mock of
\* tests/test_linkedin.py does)
PostResponses ==
    [status_code : {201, 401, 500}, raise_for_status : {"requests", "stub"}]

\* no image, an image that is registered and uploaded, an image whose
\* registration is refused
ImageOutcomes == {"none", "uploaded", "refused"}

post_to_linkedin(image, res) ==
    IF image = "refused" THEN [raised |-> "HTTPError", value |-> <<>>]
    ELSE IF res.status_code >= 400 /\ res.raise_for_status = "requests"
         THEN [raised |-> "HTTPError", value |-> <<>>]
         ELSE [raised |-> "none", value |-> <<"Post successful">>]

PostCalls == [op : {"post_to_linkedin"}, image : ImageOutcomes, res : PostResponses]

call_post_to_linkedin ==
    /\ UNCHANGED <<rot_vars, job_vars, call>>
    /\ call.op = "post_to_linkedin" /\ returned = NoResult
    /\ returned' = post_to_linkedin(call.image, call.res)

\* ============================================================ summariser.py
\* what the hosted inference API answers to one request: a summary, 503 with
\* "estimated_time" in the body (model loading), another error status, or no
\* answer at all (requests.RequestException)
HFResponses == {"200", "503_loading", "500", "network_error"}

SummariseCalls == [op : {"_remote_summarise"}, requests : {0}]

\* one activation of _remote_summarise: the request and what follows from its
\* answer; on "model loading" the function calls itself, which is the next
\* activation
remote_summarise(response) ==
    /\ UNCHANGED <<rot_vars, job_vars>>
    /\ call.op = "_remote_summarise" /\ returned = NoResult
    /\ call.requests < MaxRequests
    /\ call' = [call EXCEPT !.requests = @ + 1]
    /\ returned' =
         CASE response = "200"         -> [raised |-> "none", value |-> <<"summary_text">>]
           [] response = "503_loading" -> NoResult
           [] OTHER                    -> [raised |-> "RuntimeError", value |-> <<>>]

UtilInit ==
    /\ call = NoCallYet
    /\ returned = NoResult

RotInit ==
    /\ topics \in NoDupSeqs(TopicNames, MaxTopics)
    /\ content_types \in NoDupSeqs(ContentTypeNames, MaxTypes)
    /\ topic_index = 0
    /\ content_type_index = 0
    /\ running = FALSE
    /\ daemon = FALSE
    /\ config = [topics |-> topics, content_types |-> content_types,
                 current_topic |-> topics[1]]
    /\ run = IdleRun
    /\ ret = NoRet

JobsInit ==
    /\ jobs = [id \in JobIds |-> <<>>]
    /\ sched_running = FALSE
    /\ jobs_file = {}
    /\ inflight = EmptyBag
    /\ auth_failures = [id \in JobIds |-> 0]
    /\ last_call = NoCall

Init == RotInit /\ JobsInit /\ UtilInit

\* every step but create_and_post, whose inputs the specifications choose
Manage ==
    \/ \E t \in TopicNames : main_add_topic(t)
    \/ \E t \in TopicNames : main_remove_topic(t)
    \/ \E t \in TopicNames \cup {NoTopic}, c \in OverrideTypes \cup {NoType} :
           main_run_once(t, c)
    \/ \E ok \in BOOLEAN : run_once(ok)
    \/ \E ok \in BOOLEAN : start_scheduler(ok)
    \/ run_pending
    \/ \E n \in 0..1 : gather_information(n)
    \/ \E r \in BOOLEAN : record_result(r)
    \/ run_returns
    \/ signal_handler
    \/ new_process

\* Spec: every configuration of topics and content types; the language model
\* and the MCP server are healthy, media rendering and the publisher may fail
Next ==
    \/ Manage
    \/ \E media \in BOOLEAN, p \in PublishOutcomes :
           create_and_post("json", "enhanced", media, p)

Spec == Init /\ [][Next]_vars

\* SpecDegraded: one topic and the article type configured, as in scenario A;
\* every collaborator may fail
DegradedInit ==
    /\ RotInit
    /\ Len(topics) = 1
    /\ content_types = <<"article">>
    /\ JobsInit
    /\ UtilInit

NextDegraded ==
    \/ Manage
    \/ \E llm \in LLMOutcomes, mcp \in MCPOutcomes, media \in BOOLEAN,
          p \in PublishOutcomes :
           create_and_post(llm, mcp, media, p)

SpecDegraded == DegradedInit /\ [][NextDegraded]_vars

\* the rotation scheduler at rest while the job scheduler is examined
RotDefault ==
    /\ RotInit
    /\ topics = << <<"a", "i">> >>
    /\ content_types = <<"article">>

JobsSpecInit == RotDefault /\ JobsInit /\ UtilInit

\* SpecJobs: the management calls of the job scheduler
NextJobs ==
    \/ start
    \/ stop
    \/ \E t \in JobTopics, sch \in Schedules : schedule_daily_posting(t, sch)
    \/ \E t \in JobTopics : schedule_interval_posting(t, 24)
    \/ \E id \in JobIds : remove_job(id)
    \/ \E id \in JobIds : pause_job(id)
    \/ \E id \in JobIds : resume_job(id)
    \/ \E id \in JobIds, sch \in Schedules : update_job_schedule(id, sch)
    \/ scheduler_init

SpecJobs == JobsSpecInit /\ [][NextJobs]_vars

\* SpecRuns: triggers, manual runs and the pipeline of each run
RunTopics == { <<"q", " ", "c">>, <<"b">> }

NextRuns ==
    \/ start
    \/ \E t \in RunTopics : schedule_daily_posting(t, DefaultSchedule)
    \/ \E id \in JobIds : pause_job(id)
    \/ \E id \in JobIds : resume_job(id)
    \/ \E id \in JobIds : fire_trigger(id)
    \/ \E id \in JobIds : run_job_now(id)
    \/ \E r \in BagToSet(inflight), ok \in BOOLEAN : test_connection(r, ok)
    \/ \E r \in BagToSet(inflight), ok \in BOOLEAN : generate_content(r, ok)
    \/ \E r \in BagToSet(inflight), st \in PublishOutcomes : publish(r, st)

SpecRuns == JobsSpecInit /\ [][NextRuns]_vars

\* SpecUtils: the helper functions, each called once with one of its inputs
UtilsInit ==
    /\ RotDefault
    /\ JobsInit
    /\ call \in SearchCalls \cup FetchCalls \cup PostCalls \cup SummariseCalls
    /\ returned = NoResult

NextUtils ==
    \/ call_search_urls
    \/ call_fetch_articles
    \/ call_post_to_linkedin
    \/ \E response \in HFResponses : remote_summarise(response)

SpecUtils == UtilsInit /\ [][NextUtils]_vars

\* ================================================================== claims

\* C1: from non-empty topics and content_types, after any sequence of runs and
\* of add_topic, remove_topic and set_current_topic calls, get_current_topic
\* yields a member of topics and get_current_content_type a member of
\* content_types; neither subscript is ever out of range.
C1_SelectionIsMember ==
    /\ get_current_topic \in Range(topics)
    /\ get_current_content_type \in Range(content_types)

C1_Witness ==
    /\ ret.cmd = "remove_topic"
    /\ Len(topics) = 2
    /\ topic_index = 1

\* C2: a run whose publish step failed leaves topic_index and
\* content_type_index as they were when the run began, so the next trigger
\* selects the same topic and content type.
C2_FailedRunKeepsCursors ==
    (run.pc = "done" /\ run.published /\ run.result = "failed") =>
        /\ topic_index = run.pre_ti
        /\ content_type_index = run.pre_ci
        /\ get_current_topic = run.topic
        /\ get_current_content_type = run.ctype

C2_Witness ==
    /\ run.pc = "done" /\ run.published /\ run.result = "failed"
    /\ run.via = "scheduled"
    /\ run.pre_ci = 1

\* C3: a run that ends with a successful publish leaves the content-type
\* cursor at (cursor when the run began + 1) mod len(content_types), whether
\* the run was scheduled or manual.
C3_SuccessAdvancesByOne ==
    (run.pc = "done" /\ run.result = "success") =>
        content_type_index = (run.pre_ci + 1) % run.pre_len

C3_Witness ==
    /\ run.pc = "done" /\ run.result = "success"
    /\ run.via = "scheduled"
    /\ run.pre_len = 2 /\ run.pre_ci = 1
    /\ content_type_index = 0

\* C4: remove_topic of the only remaining topic fails with an error surfaced
\* to the caller and leaves topics, topic_index and the persisted
\* configuration unchanged; it is not reported as a successful removal.
C4_LastTopicRemovalIsAnError ==
    [][\A t \in TopicNames :
         (topics = <<t>> /\ main_remove_topic(t)) =>
            /\ ret'.rc # 0
            /\ ret'.log # "Removed topic"
            /\ UNCHANGED <<topics, topic_index, config>>]_vars

\* C7: with zero sources and a failed synthesis, an article run still reaches
\* the publish call, the text handed to the publisher contains the topic name,
\* and the run succeeds whenever the publisher accepts the post.
C7_FallbackArticleNamesTopic ==
    (run.pc \in {"record", "done"} /\ run.ctype = "article"
        /\ run.sources = 0 /\ run.llm \in {"text", "unavailable"}) =>
        /\ run.published
        /\ Contains(run.posted, run.topic)

\* C9: a manual run_once needs no trigger (no scheduler loop is running), uses
\* the content type at the cursor it was called with and, when the publish
\* succeeds, leaves the cursor advanced by one, so that the next run uses the
\* following content type.
C9_ManualRunRotates ==
    (run.pc = "done" /\ run.via = "manual" /\ ~run.override
        /\ run.result # "invalid_credentials") =>
        /\ ~daemon
        /\ run.ctype = Subscript(run.original_types, run.call_ci)
        /\ run.result = "success" =>
              /\ content_type_index = (run.call_ci + 1) % Len(run.original_types)
              /\ get_current_content_type =
                    Subscript(run.original_types,
                              (run.call_ci + 1) % Len(run.original_types))

C9_Witness ==
    /\ run.pc = "done" /\ run.via = "manual" /\ ~run.override
    /\ run.result = "success"
    /\ content_types = <<"article", "graph">>
    /\ run.call_ci = 0 /\ run.ctype = "article"
    /\ content_type_index = 1

\* C10: after any sequence of runs followed by a restart, the new process
\* selects the topic and the content type the previous process would have
\* selected next.
C10_RestartResumesRotation ==
    [][(run.pc = "idle" /\ new_process) =>
          /\ get_current_topic' = get_current_topic
          /\ get_current_content_type' = get_current_content_type]_vars

\* C5: scheduling is idempotent per topic: a schedule call for a topic whose
\* job is already in the store replaces that job, so the job list is as long
\* after the call as before it and holds one job under that id.
C5_ScheduleReplaces ==
    [][/\ \A t \in JobTopics, sch \in Schedules :
            (jobs[daily_job_id(t)] # <<>> /\ schedule_daily_posting(t, sch)) =>
                /\ JobCount' = JobCount
                /\ Len(jobs'[daily_job_id(t)]) = 1
       /\ \A t \in JobTopics :
            (jobs[interval_job_id(t)] # <<>> /\ schedule_interval_posting(t, 24)) =>
                /\ JobCount' = JobCount
                /\ Len(jobs'[interval_job_id(t)]) = 1]_vars

C5_Witness ==
    /\ last_call.op = "schedule_daily_posting"
    /\ last_call.existed /\ ~last_call.raised
    /\ JobCount = 2

\* C6: two runs for the same job id are never in flight together: a trigger
\* firing or a manual run that arrives while a run of that job is executing
\* is suppressed.
C6_NoOverlappingRuns ==
    \A id \in JobIds : InFlight(id) <= 1

\* C8: after three consecutive runs of a job whose publish failed with an
\* authentication error the job is Paused, and stays out of the trigger ticks
\* until it is resumed.
C8_AuthFailuresPauseJob ==
    \A id \in JobIds :
        (jobs[id] # <<>> /\ auth_failures[id] >= 3) => jobs[id][1].paused

\* C11: every mutating management call (schedule, remove, pause, resume,
\* update of a schedule) has written the job table to the jobs file by the
\* time it returns.
C11_MutationsArePersisted ==
    [][(\/ \E t \in JobTopics, sch \in Schedules :
              cron_ok(sch) /\ schedule_daily_posting(t, sch)
        \/ \E t \in JobTopics : schedule_interval_posting(t, 24)
        \/ \E id \in JobIds : jobs[id] # <<>> /\ remove_job(id)
        \/ \E id \in JobIds : pause_job(id)
        \/ \E id \in JobIds : resume_job(id)
        \/ \E id \in JobIds, sch \in Schedules :
              jobs[id] # <<>> /\ update_job_schedule(id, sch))
          => jobs_file' = saved_jobs(jobs')]_vars

\* C12: _search_urls falls back to the second backend whenever the first one
\* raises or returns no URLs; it then returns the second backend's URLs, at
\* most max_results of them, and the empty list, never an exception, when
\* both backends fail.
C12_SearchFallsBack ==
    (call.op = "_search_urls" /\ returned # NoResult) =>
        /\ returned.raised = "none"
        /\ Len(returned.value) <= call.max_results
        /\ (call.google.raises \/ call.google.urls = <<>>) =>
              /\ ~call.ddg.raises =>
                    returned.value = SubSeq(call.ddg.urls, 1, Len(returned.value))
              /\ ~call.ddg.raises /\ Len(call.ddg.urls) <= call.max_results =>
                    returned.value = call.ddg.urls
              /\ call.ddg.raises => returned.value = <<>>

C12_Witness ==
    /\ call.op = "_search_urls"
    /\ call.google.raises /\ call.ddg.raises
    /\ returned = [raised |-> "none", value |-> <<>>]

\* C14: fetch_articles returns one record with a "content" field for each
\* found URL whose download succeeded, in search order; a URL whose download
\* fails is skipped without aborting the others, and the result has at most
\* max_results entries.
C14_OneArticlePerDownload ==
    (call.op = "fetch_articles" /\ returned # NoResult) =>
        LET found == search_urls(call.google, call.ddg, call.max_results).value
            good == SelectSeq(found, LAMBDA u : call.download[u] = "ok")
        IN  /\ returned.raised = "none"
            /\ Len(returned.value) <= call.max_results
            /\ Len(returned.value) = Len(good)
            /\ \A i \in 1..Len(returned.value) :
                  /\ "content" \in DOMAIN returned.value[i]
                  /\ returned.value[i].url = good[i]

C14_Witness ==
    /\ call.op = "fetch_articles"
    /\ call.google.urls = <<"u1", "u2">> /\ call.max_results = 2
    /\ call.download["u1"] = "fail" /\ call.download["u2"] = "ok"
    /\ Len(returned.value) = 1 /\ returned.value[1].url = "u2"

\* C13: post_to_linkedin raises TokenExpiredError whenever the post request
\* is answered with HTTP 401, and then never completes as if the post had
\* succeeded.
C13_TokenExpiredIsRaised ==
    (call.op = "post_to_linkedin" /\ returned # NoResult
        /\ call.image # "refused" /\ call.res.status_code = 401) =>
        returned.raised = "TokenExpiredError"

\* C15: run_once returns the outcome of the run it executed: failure whenever
\* the publish step failed, success only when the post was published.
C15_RunOnceReportsOutcome ==
    [][(run.via = "manual" /\ run.published /\ run_returns) =>
          (ret'.rc = 0 <=> run.result = "success")]_vars

\* C16: a failure of the context-enhancement step never aborts the run and
\* never alters the artifact: what reaches the publisher is the article that
\* synthesis produced (stated here for its headline, introduction, main
\* points, takeaways and conclusion, the fields the hashtag merge leaves alone).
C16_FailedEnhancementKeepsArtifact ==
    (run.pc \in {"record", "done"} /\ run.ctype = "article" /\ run.mcp = "down") =>
        LET synthesized == generate_article_content(run.sources, run.topic, run.llm)
            body == post_article_text([synthesized EXCEPT !.hashtags = <<>>])
        IN  /\ run.published
            /\ Len(run.posted) >= Len(body)
            /\ SubSeq(run.posted, 1, Len(body)) = body

\* C17: only a failure of the publish call makes a run fail: a slide or graph
\* run whose gathering, synthesis or media rendering failed or came back
\* empty still reaches the publish call with a degraded artifact.
C17_EveryRunReachesPublish ==
    (run.pc \in {"record", "done"} /\ run.ctype \in {"slide", "graph"}) =>
        run.published

\* C18: a shutdown request that arrives while a posting run is executing
\* does not end the run where it stands: the run goes on to finish the stage
\* it is in.
C18_ShutdownLetsStageFinish ==
    [][(run.pc \in {"gather", "create", "record"} /\ signal_handler) =>
          run'.pc # "exited"]_vars

\* C19: add_topic(t) with t already in topics changes neither topics, nor the
\* cursor, nor the persisted configuration; otherwise it appends t at the end
\* and persists the list. A duplicate-free list stays duplicate-free under
\* add_topic and remove_topic.
C19_AddTopicIsIdempotent ==
    [][/\ \A t \in TopicNames :
            main_add_topic(t) =>
                IF t \in Range(topics)
                THEN UNCHANGED <<topics, topic_index, config>>
                ELSE /\ topics' = Append(topics, t)
                     /\ config'.topics = topics'
                     /\ topic_index' = topic_index
       /\ (\A i, j \in 1..Len(topics) : topics[i] = topics[j] => i = j) =>
             (\A i, j \in 1..Len(topics') : topics'[i] = topics'[j] => i = j)]_vars

C19_Witness ==
    /\ ret.cmd = "add_topic"
    /\ Len(topics) = 3
    /\ topics[3] = <<"b">>
    /\ config.topics = topics

\* C20: saving the job table and loading it again restores the same jobs:
\* start() on a newly constructed scheduler brings back every job that
\* stop() wrote to the jobs file, under the same job id and with the same
\* trigger.
C20_SaveLoadRestoresJobs ==
    [][(JobCount = 0 /\ start) =>
          \A e \in jobs_file :
              /\ jobs'[e.job_id] # <<>>
              /\ str_trigger(jobs'[e.job_id][1].trigger) = e.schedule]_vars

\* C21: the remote summarisation call retries once when the service answers
\* 503 'model loading': against a service that keeps answering 503 it makes
\* two requests at most and then ends with a RuntimeError.
C21_RemoteSummariseRetriesOnce ==
    call.op = "_remote_summarise" =>
        /\ call.requests <= 2
        /\ (call.requests = 2 => returned # NoResult)

C23_RemovalKeepsSelection ==
    [][\A t \in TopicNames :
          (t # get_current_topic /\ main_remove_topic(t)) =>
              get_current_topic' = get_current_topic]_vars

\* C24: the persisted content.current_topic is the topic the cursor selects:
\* a removal made while the two agree leaves them in agreement.
C24_PersistedTopicIsSelection ==
    [][(config.current_topic = get_current_topic
            /\ \E t \in TopicNames : main_remove_topic(t)) =>
          config'.current_topic = get_current_topic']_vars

\* C25: the content-type override of run_once is temporary: when the command
\* returns, content_types and the content-type cursor are what they were
\* when it was called.
C25_OverrideIsTemporary ==
    [][(run.pc = "done" /\ run.via = "manual" /\ run.override /\ run_returns) =>
          /\ content_types' = run.original_types
          /\ content_type_index' = run.call_ci]_vars

\* C28: the running flag is true only while the scheduler loop executes: it
\* is false whenever start_scheduler has returned.
C28_RunningOnlyInLoop == running => daemon

\* C26: update_job_schedule called with a schedule that does not have five
\* cron fields leaves the job table as it was.
C26_InvalidUpdateKeepsJobs ==
    [][\A id \in JobIds, s \in Schedules :
          (Len(s) # 5 /\ jobs[id] # <<>> /\ update_job_schedule(id, s)) =>
              jobs' = jobs]_vars

\* C27: the job id identifies the topic: scheduling a topic leaves the live
\* job of every other topic in the store, also when the two topics differ
\* only in a space against an underscore.
C27_JobIdIdentifiesTopic ==
    [][\A t \in JobTopics, s \in Schedules :
          schedule_daily_posting(t, s) =>
              \A id \in JobIds :
                  (jobs[id] # <<>> /\ jobs[id][1].topic # t) => jobs'[id] = jobs[id]]_vars

\* C29: the rotation never gets stuck, whatever content_types holds: a
\* trigger firing that met no publisher failure made a publish attempt and
\* left the content-type cursor one entry further.
C29_RotationNeverStuck ==
    (run.pc = "done" /\ run.via = "scheduled" /\ run.result # "failed") =>
        /\ run.published
        /\ content_type_index = rotate_content_type(run.pre_ci, run.pre_len)

\* C30: run_once(topic) runs the pipeline for the topic it was given, also
\* when that topic is not in the rotation.
C30_RunOnceUsesGivenTopic ==
    (run.via = "manual" /\ run.requested # NoTopic
        /\ run.pc \in {"gather", "create", "record"}) =>
        run.topic = run.requested

====
